---- MODULE Spec2Model ----
(***************************************************************************)
(* Client interface to the RPC MIDI server (src/src/i_midirpc.c).          *)
(*                                                                         *)
(* The module's file-scope data (serverInit, clientInit, szStringBinding,  *)
(* hMidiRPCBinding, pi) is the state. Every public function is one action  *)
(* that models the whole call. The RPC runtime, the helper process and the *)
(* operating system are the environment: their answers are inputs chosen   *)
(* with \E. History variables (lastOp, lastRet, events, poll, pre, ...)    *)
(* record what the last call did so that the properties can speak of it.   *)
(***************************************************************************)
EXTENDS Integers, Sequences, FiniteSets, TLC

\* ------------------------------------------------------------------ bounds
\* CreateProcess succeeds at most MaxStarts times in a run.
MaxStarts == 2
\* RpcStringBindingCompose succeeds at most MaxBindings times in a run.
MaxBindings == 2
\* The helper starts to listen at the listenAt-th check, listenAt in 1..MaxListenAt;
\* a value above MIDIRPC_MAXTRIES is a helper that is not listening during the poll.
MaxListenAt == 52

\* --------------------------------------------------------- program constants
\* #define MIDIRPC_MAXTRIES 50
MIDIRPC_MAXTRIES == 50
\* I_Sleep(10)
SleepMs == 10
\* a pointer or handle that holds nothing
NULL == 0

VARIABLES
    serverInit,         \* if true, server was started
    clientInit,         \* if true, client was bound
    szStringBinding,    \* RPC client binding string: NULL or the id of a composed string
    hMidiRPCBinding,    \* RPC binding handle: NULL or the id of a resolved handle
    pi,                 \* server process information: NULL or the id of the last process created
    strLive,            \* composed binding strings not yet freed
    strFreed,           \* binding strings freed by RpcStringFree
    hLive,              \* resolved binding handles not yet freed
    hFreed,             \* binding handles freed by RpcBindingFree
    doubleFree,         \* a string or handle was freed a second time
    helperAlive,        \* a midiproc.exe helper is running
    crashed,            \* an RPC exception left a call unhandled
    ready,              \* a connect returned true and no shutdown was called since
    lastOp,             \* the last public function called
    lastRet,            \* what it returned: "true", "false", "void", or "fault"
    events,             \* the outside calls it made, in order
    poll,               \* what I_MidiRPCWaitForServer did in it
    pre,                \* the session data when it began
    preReady,           \* ready when it began
    prevShutDown,       \* the call before it was I_MidiRPCClientShutDown
    afterShutDown,      \* a shutdown was called and no start has returned true since
    scen                \* how far the run has followed the full session: 0..6, -1 when it left it

vars == <<serverInit, clientInit, szStringBinding, hMidiRPCBinding, pi, strLive,
          strFreed, hLive, hFreed, doubleFree, helperAlive, crashed, ready,
          lastOp, lastRet, events, poll, pre, preReady, prevShutDown,
          afterShutDown, scen>>

heap == <<strLive, strFreed, hLive, hFreed, doubleFree>>

\* The session data of lines 55-57 and the binding handle.
Session ==
    [serverInit |-> serverInit, clientInit |-> clientInit,
     szStringBinding |-> szStringBinding, hMidiRPCBinding |-> hMidiRPCBinding]

\* One outside call: its name, its argument or result, whether it raised an exception.
Ev(op, arg, raised) == [op |-> op, arg |-> arg, raised |-> raised]

RemoteOpNames ==
    {"MidiRPC_PrepareNewSong", "MidiRPC_AddChunk", "MidiRPC_PlaySong", "MidiRPC_StopSong",
     "MidiRPC_ChangeVolume", "MidiRPC_PauseSong", "MidiRPC_ResumeSong", "MidiRPC_StopServer"}

ReleaseNames == {"RpcStringFree", "RpcBindingFree"}

GatewayNames ==
    {"I_MidiRPCRegisterSong", "I_MidiRPCPlaySong", "I_MidiRPCStopSong",
     "I_MidiRPCSetVolume", "I_MidiRPCPauseSong", "I_MidiRPCResumeSong"}

IsRemote(e) == e.op \in RemoteOpNames
IsRelease(e) == e.op \in ReleaseNames

RemoteOps(evs) == SelectSeq(evs, IsRemote)
Releases(evs) == SelectSeq(evs, IsRelease)

NoPoll == [ran |-> FALSE, result |-> FALSE, sleeps |-> 0, checks |-> 0, listenAt |-> 0]

Ret(b) == IF b THEN "true" ELSE "false"

\* The full session: start, connect, RegisterSong(data, 128), PlaySong(true),
\* SetVolume(50), shutdown, each call made with the environment answering in its
\* favour (fav): the executable exists and starts, the binding composes and resolves,
\* the helper listens within the tries and raises nothing.
ScenarioNext(op, arg, fav) ==
    IF ~fav THEN -1
    ELSE IF scen = 0 /\ op = "I_MidiRPCInitServer" THEN 1
    ELSE IF scen = 1 /\ op = "I_MidiRPCInitClient" THEN 2
    ELSE IF scen = 2 /\ op = "I_MidiRPCRegisterSong" /\ arg = 128 THEN 3
    ELSE IF scen = 3 /\ op = "I_MidiRPCPlaySong" /\ arg = 1 THEN 4
    ELSE IF scen = 4 /\ op = "I_MidiRPCSetVolume" /\ arg = 50 THEN 5
    ELSE IF scen = 5 /\ op = "I_MidiRPCClientShutDown" THEN 6
    ELSE -1

\* The bookkeeping of one call.
Log(op, arg, ret, evs, p, fav) ==
    /\ lastOp' = op
    /\ lastRet' = ret
    /\ events' = evs
    /\ poll' = p
    /\ pre' = Session
    /\ preReady' = ready
    /\ prevShutDown' = (lastOp = "I_MidiRPCClientShutDown")
    /\ afterShutDown' = IF op = "I_MidiRPCClientShutDown" /\ ret = "void" THEN TRUE
                        ELSE IF op = "I_MidiRPCInitServer" /\ ret = "true" THEN FALSE
                        ELSE afterShutDown
    /\ scen' = ScenarioNext(op, arg, fav)

\* ------------------------------------------------------------ environment
\* Whether a remote call through hMidiRPCBinding can raise an RPC exception:
\* it always does without a binding or without a helper, and it may in any case.
RemoteOutcomes ==
    IF hMidiRPCBinding = NULL \/ ~helperAlive THEN {TRUE} ELSE {FALSE, TRUE}

\* RpcMgmtIsServerListening(hMidiRPCBinding) == RPC_S_OK at the check-th check.
RpcMgmtIsServerListening(check, listenAt) == check >= listenAt

\* ----------------------------------------------------------------- macros
\* CHECK_RPC_STATUS(): TRUE when the function returns false at once.
GuardEitherOnly(s, c) == ~s /\ ~c
CHECK_RPC_STATUS(s, c) == ~s \/ ~c

\* RpcTryExcept { call } RpcExcept(1) { return false; } RpcEndExcept of the commands.
GatewayNoExcept(raised) == IF raised THEN "escaped" ELSE "completed"
GatewayTryExcept(raised) == IF raised THEN "caught" ELSE "completed"

\* RpcTryExcept { MidiRPC_StopServer(); } RpcExcept(1) { } RpcEndExcept of the shutdown.
ShutDownNoExcept(raised) == IF raised THEN "escaped" ELSE "completed"
ShutDownTryExcept(raised) == IF raised THEN "caught" ELSE "completed"

\* ------------------------------------------------- I_MidiRPCWaitForServer
\* if (++tries >= MIDIRPC_MAXTRIES) return false;
TriesExhaustedLate(tries) == tries > MIDIRPC_MAXTRIES
TriesExhausted(tries) == tries >= MIDIRPC_MAXTRIES

RECURSIVE WaitLoop(_, _, _, _)
WaitLoop(tries, sleeps, checks, listenAt) ==
    IF RpcMgmtIsServerListening(checks + 1, listenAt)
    THEN [ran |-> TRUE, result |-> TRUE, sleeps |-> sleeps, checks |-> checks + 1,
          listenAt |-> listenAt]
    ELSE IF TriesExhausted(tries + 1)
         THEN [ran |-> TRUE, result |-> FALSE, sleeps |-> sleeps + 1,
               checks |-> checks + 1, listenAt |-> listenAt]
         ELSE WaitLoop(tries + 1, sleeps + 1, checks + 1, listenAt)

\* int tries = 0;
WaitForServerFromOne(listenAt) == WaitLoop(1, 0, 0, listenAt)
I_MidiRPCWaitForServer(listenAt) == WaitLoop(0, 0, 0, listenAt)

\* ------------------------------------------------------------------- Init
Init ==
    /\ serverInit = FALSE
    /\ clientInit = FALSE
    /\ szStringBinding = NULL
    /\ hMidiRPCBinding = NULL
    /\ pi = NULL
    /\ strLive = {}
    /\ strFreed = {}
    /\ hLive = {}
    /\ hFreed = {}
    /\ doubleFree = FALSE
    /\ helperAlive = FALSE
    /\ crashed = FALSE
    /\ ready = FALSE
    /\ lastOp = "none"
    /\ lastRet = "void"
    /\ events = <<>>
    /\ poll = NoPoll
    /\ pre = Session
    /\ preReady = FALSE
    /\ prevShutDown = FALSE
    /\ afterShutDown = FALSE
    /\ scen = 0

\* ---------------------------------------------------------------- gateway
\* RpcExcept(1) { return false; }: the handler returns and leaves clientInit as it is.
ClientInitDropped(c) == FALSE
ClientInitAfterFault(c) == c

\* The five commands that make one remote call.
RpcCommand(fn, op, arg) ==
    /\ ~crashed
    /\ IF CHECK_RPC_STATUS(serverInit, clientInit)
       THEN /\ Log(fn, arg, "false", <<>>, NoPoll, helperAlive)
            /\ UNCHANGED <<crashed, clientInit>>
       ELSE \E raised \in RemoteOutcomes :
              LET out == GatewayTryExcept(raised)
              IN  /\ crashed' = (out = "escaped")
                  /\ clientInit' = IF out = "caught" THEN ClientInitAfterFault(clientInit)
                                   ELSE clientInit
                  /\ Log(fn, arg,
                         IF out = "completed" THEN "true"
                         ELSE IF out = "caught" THEN "false" ELSE "fault",
                         <<Ev(op, arg, raised)>>, NoPoll, ~raised)
    /\ UNCHANGED <<serverInit, szStringBinding, hMidiRPCBinding, pi, heap,
                   helperAlive, ready>>

\* MidiRPC_PrepareNewSong(); MidiRPC_AddChunk(size, data); in one try block: an
\* exception raised by the first call leaves the block before the second.
SongCallsBoth(prep, add) == <<prep, add>>
SongCalls(prep, add) == IF prep.raised THEN <<prep>> ELSE <<prep, add>>

I_MidiRPCRegisterSong ==
    \E size \in {0, 128} :
      /\ ~crashed
      /\ IF CHECK_RPC_STATUS(serverInit, clientInit)
         THEN /\ Log("I_MidiRPCRegisterSong", size, "false", <<>>, NoPoll, helperAlive)
              /\ UNCHANGED <<crashed, clientInit>>
         ELSE \E raised1 \in RemoteOutcomes, raised2 \in RemoteOutcomes :
                LET prep == Ev("MidiRPC_PrepareNewSong", 0, raised1)
                    add  == Ev("MidiRPC_AddChunk", size, raised2)
                    evs  == SongCalls(prep, add)
                    out  == GatewayTryExcept(evs[Len(evs)].raised)
                IN  /\ crashed' = (out = "escaped")
                    /\ clientInit' = IF out = "caught" THEN ClientInitAfterFault(clientInit)
                                     ELSE clientInit
                    /\ Log("I_MidiRPCRegisterSong", size,
                           IF out = "completed" THEN "true"
                           ELSE IF out = "caught" THEN "false" ELSE "fault",
                           evs, NoPoll, ~raised1 /\ ~raised2)
      /\ UNCHANGED <<serverInit, szStringBinding, hMidiRPCBinding, pi, heap,
                     helperAlive, ready>>

I_MidiRPCPlaySong ==
    \E looping \in {0, 1} : RpcCommand("I_MidiRPCPlaySong", "MidiRPC_PlaySong", looping)

I_MidiRPCStopSong == RpcCommand("I_MidiRPCStopSong", "MidiRPC_StopSong", 0)

I_MidiRPCSetVolume ==
    \E volume \in {0, 50} : RpcCommand("I_MidiRPCSetVolume", "MidiRPC_ChangeVolume", volume)

I_MidiRPCPauseSong == RpcCommand("I_MidiRPCPauseSong", "MidiRPC_PauseSong", 0)

I_MidiRPCResumeSong == RpcCommand("I_MidiRPCResumeSong", "MidiRPC_ResumeSong", 0)

\* ---------------------------------------------------- I_MidiRPCInitServer
\* if (result) { ...; serverInit = true; }
ServerInitAlways(result, s) == TRUE
ServerInitNever(result, s) == s
ServerInitOnCreate(result, s) == IF result THEN TRUE ELSE s

I_MidiRPCInitServer ==
    \E fileExists \in BOOLEAN, result \in BOOLEAN :
      /\ ~crashed
      /\ (fileExists /\ result) => pi < MaxStarts
      /\ IF ~fileExists
         THEN /\ Log("I_MidiRPCInitServer", 0, "false",
                     <<Ev("M_FileExists", 0, FALSE), Ev("C_Warning", 0, FALSE)>>, NoPoll,
                     FALSE)
              /\ UNCHANGED <<serverInit, pi, helperAlive>>
         ELSE /\ serverInit' = ServerInitOnCreate(result, serverInit)
              /\ pi' = IF result THEN pi + 1 ELSE pi
              /\ helperAlive' = IF result THEN TRUE ELSE helperAlive
              /\ Log("I_MidiRPCInitServer", 0, Ret(result),
                     <<Ev("M_FileExists", 1, FALSE),
                       Ev("CreateProcess", IF result THEN pi + 1 ELSE NULL, FALSE),
                       Ev(IF result THEN "C_Output" ELSE "C_Warning", 0, FALSE)>>,
                     NoPoll, result)
      /\ UNCHANGED <<clientInit, szStringBinding, hMidiRPCBinding, heap, crashed, ready>>

\* ---------------------------------------------------- I_MidiRPCInitClient
\* if (!serverInit) return false;
ServerNotStartedIgnored(s) == FALSE
ServerNotStarted(s) == ~s

I_MidiRPCInitClient ==
    \E composeOK \in BOOLEAN, resolveOK \in BOOLEAN, listenAt \in 1..MaxListenAt :
      LET newStr == Cardinality(strLive \cup strFreed) + 1
          newH   == Cardinality(hLive \cup hFreed) + 1
          wait   == I_MidiRPCWaitForServer(listenAt)
          fn     == "I_MidiRPCInitClient"
          fav    == composeOK /\ resolveOK /\ listenAt <= MIDIRPC_MAXTRIES
      IN
      /\ ~crashed
      /\ composeOK => newStr <= MaxBindings
      /\ ~helperAlive => listenAt > MIDIRPC_MAXTRIES
      /\ IF ServerNotStarted(serverInit)
         THEN /\ Log(fn, 0, "false", <<>>, NoPoll, fav)
              /\ UNCHANGED <<clientInit, szStringBinding, hMidiRPCBinding, heap, ready>>
         ELSE IF ~composeOK
         THEN /\ Log(fn, 0, "false", <<Ev("RpcStringBindingCompose", NULL, FALSE)>>, NoPoll, fav)
              /\ UNCHANGED <<clientInit, szStringBinding, hMidiRPCBinding, heap, ready>>
         ELSE IF ~resolveOK
         THEN /\ szStringBinding' = newStr
              /\ strLive' = strLive \cup {newStr}
              /\ Log(fn, 0, "false",
                     <<Ev("RpcStringBindingCompose", newStr, FALSE),
                       Ev("RpcBindingFromStringBinding", NULL, FALSE)>>, NoPoll, fav)
              /\ UNCHANGED <<clientInit, hMidiRPCBinding, strFreed, hLive, hFreed,
                             doubleFree, ready>>
         ELSE /\ szStringBinding' = newStr
              /\ strLive' = strLive \cup {newStr}
              /\ hMidiRPCBinding' = newH
              /\ hLive' = hLive \cup {newH}
              /\ clientInit' = TRUE
              /\ ready' = (ready \/ wait.result)
              /\ Log(fn, 0, Ret(wait.result),
                     <<Ev("RpcStringBindingCompose", newStr, FALSE),
                       Ev("RpcBindingFromStringBinding", newH, FALSE)>>, wait, fav)
              /\ UNCHANGED <<strFreed, hFreed, doubleFree>>
      /\ UNCHANGED <<serverInit, pi, helperAlive, crashed>>

\* ------------------------------------------------ I_MidiRPCClientShutDown
\* szStringBinding = NULL; after RpcStringFree
StringBindingKept(sz) == sz
StringBindingCleared(sz) == NULL

\* hMidiRPCBinding = NULL; after RpcBindingFree
BindingCleared(h) == NULL

\* serverInit = false; after the stop-server attempt
ServerInitKept(s) == s
ServerInitCleared(s) == FALSE

\* if (hMidiRPCBinding)
BindingAssumed(h) == TRUE
HasBinding(h) == h # NULL

\* The order of the statements of I_MidiRPCClientShutDown: the stop-server attempt,
\* RpcStringFree, RpcBindingFree, clientInit = false.
ShutDownStopLast(stop, str, h, clr) == str \o h \o clr \o stop
ShutDownOrder(stop, str, h, clr) == stop \o str \o h \o clr

\* clientInit = false;
ClientInitKept(c) == c
ClientInitCleared(c) == FALSE

I_MidiRPCClientShutDown ==
    \E raised \in RemoteOutcomes :
      LET fn      == "I_MidiRPCClientShutDown"
          out     == IF serverInit THEN ShutDownTryExcept(raised) ELSE "completed"
          stopEv  == IF serverInit THEN <<Ev("MidiRPC_StopServer", 0, raised)>> ELSE <<>>
          strEv   == IF szStringBinding # NULL
                     THEN <<Ev("RpcStringFree", szStringBinding, FALSE)>> ELSE <<>>
          hEv     == IF HasBinding(hMidiRPCBinding)
                     THEN <<Ev("RpcBindingFree", hMidiRPCBinding, FALSE)>> ELSE <<>>
          clrEv   == <<Ev("clientInit = false", 0, FALSE)>>
      IN
      /\ ~crashed
      /\ IF out = "escaped"
         THEN /\ crashed' = TRUE
              /\ Log(fn, 0, "fault", stopEv, NoPoll, FALSE)
              /\ UNCHANGED <<serverInit, clientInit, szStringBinding, hMidiRPCBinding,
                             heap, helperAlive, ready>>
         ELSE /\ serverInit' = IF serverInit THEN ServerInitCleared(serverInit) ELSE serverInit
              /\ helperAlive' = IF serverInit /\ ~raised THEN FALSE ELSE helperAlive
              /\ IF szStringBinding # NULL
                 THEN /\ strLive' = strLive \ {szStringBinding}
                      /\ strFreed' = strFreed \cup {szStringBinding}
                      /\ szStringBinding' = StringBindingCleared(szStringBinding)
                 ELSE UNCHANGED <<strLive, strFreed, szStringBinding>>
              /\ IF HasBinding(hMidiRPCBinding)
                 THEN /\ hLive' = hLive \ {hMidiRPCBinding}
                      /\ hFreed' = hFreed \cup {hMidiRPCBinding}
                      /\ hMidiRPCBinding' = BindingCleared(hMidiRPCBinding)
                 ELSE UNCHANGED <<hLive, hFreed, hMidiRPCBinding>>
              /\ doubleFree' = \/ doubleFree
                               \/ (szStringBinding # NULL /\ szStringBinding \in strFreed)
                               \/ (hMidiRPCBinding # NULL /\ hMidiRPCBinding \in hFreed)
              /\ clientInit' = ClientInitCleared(clientInit)
              /\ ready' = FALSE
              /\ Log(fn, 0, "void", ShutDownOrder(stopEv, strEv, hEv, clrEv), NoPoll, ~serverInit \/ ~raised)
              /\ UNCHANGED crashed
      /\ UNCHANGED pi

\* The process handles CreateProcess stored in pi that are still open: every one of
\* them, since no function of the file closes pi.hProcess or pi.hThread.
ProcessHandlesOpen == 1..pi

\* ------------------------------------------------------------ the helper
\* midiproc.exe, the process CreateProcess started, ends on its own.
HelperExits ==
    /\ ~crashed
    /\ helperAlive
    /\ helperAlive' = FALSE
    /\ UNCHANGED <<serverInit, clientInit, szStringBinding, hMidiRPCBinding, pi, heap,
                   crashed, ready, lastOp, lastRet, events, poll, pre, preReady,
                   prevShutDown, afterShutDown, scen>>

Next ==
    \/ I_MidiRPCInitServer
    \/ I_MidiRPCInitClient
    \/ I_MidiRPCRegisterSong
    \/ I_MidiRPCPlaySong
    \/ I_MidiRPCStopSong
    \/ I_MidiRPCSetVolume
    \/ I_MidiRPCPauseSong
    \/ I_MidiRPCResumeSong
    \/ I_MidiRPCClientShutDown
    \/ HelperExits

Spec == Init /\ [][Next]_vars

\* =============================================================== properties
AnyRaised(evs) == \E i \in 1..Len(evs) : evs[i].raised

GuardPassed == pre.serverInit /\ pre.clientInit

\* C1: a gateway command returns true only if serverInit and clientInit were both
\* true when the call began; if either was false it returns false and makes no
\* remote call.
C1_GuardInvariant ==
    lastOp \in GatewayNames =>
        /\ lastRet = "true" => GuardPassed
        /\ ~GuardPassed => (lastRet = "false" /\ RemoteOps(events) = <<>>)

\* A command was rejected with the server started and the client not bound.
C1_Witness ==
    /\ lastOp \in GatewayNames
    /\ pre.serverInit
    /\ ~pre.clientInit
    /\ lastRet = "false"
    /\ events = <<>>

\* C2: clientInit becomes true only in a connect that succeeded in composition,
\* resolution and the readiness poll: a connect whose poll ran out of tries returns
\* false and leaves clientInit false, and a command returns true only in a session
\* whose connect returned true.
C2_BoundOnlyAfterPoll ==
    /\ (lastOp = "I_MidiRPCInitClient" /\ ~pre.clientInit /\ poll.ran /\ ~poll.result)
           => (lastRet = "false" /\ ~clientInit)
    /\ (lastOp \in GatewayNames /\ lastRet = "true") => preReady

\* C3: a remote operation (a command's or the shutdown's stop-server) is invoked only
\* by a call that began in the Ready state, that is after a start returned true and a
\* later connect returned true with no shutdown in between.
C3_RemoteOnlyWhenReady == RemoteOps(events) # <<>> => preReady

\* C4: after every completed operation, clientInit implies serverInit.
C4_BoundImpliesStarted == clientInit => serverInit

\* A shutdown ran on a session that was started and bound.
C4_Witness ==
    /\ lastOp = "I_MidiRPCClientShutDown"
    /\ lastRet = "void"
    /\ pre.serverInit
    /\ pre.clientInit
    /\ ~serverInit

\* C5: an RPC exception raised by a command's remote call is caught and the command
\* returns false; none leaves the call unhandled; the command returns true exactly
\* when the guard passed and nothing was raised.
C5_FaultsBecomeFalse ==
    lastOp \in GatewayNames =>
        /\ ~crashed
        /\ lastRet \in {"true", "false"}
        /\ AnyRaised(events) => lastRet = "false"
        /\ lastRet = "true" <=> (GuardPassed /\ ~AnyRaised(events))

\* A command's remote call raised an exception and the command returned false.
C5_Witness ==
    /\ lastOp \in GatewayNames
    /\ GuardPassed
    /\ AnyRaised(events)
    /\ lastRet = "false"
    /\ ~crashed

\* C6: a shutdown called right after a shutdown raises nothing, makes no remote call,
\* frees nothing, and leaves the state of the first one: both flags false, the
\* binding string and the binding handle empty.
C6_ShutDownIdempotent ==
    (lastOp = "I_MidiRPCClientShutDown" /\ prevShutDown) =>
        /\ ~crashed
        /\ lastRet = "void"
        /\ RemoteOps(events) = <<>>
        /\ Releases(events) = <<>>
        /\ Session = pre
        /\ ~serverInit
        /\ ~clientInit
        /\ szStringBinding = NULL
        /\ hMidiRPCBinding = NULL

\* Two shutdowns in a row, the first of which had a string and a handle to free.
C6_Witness ==
    /\ lastOp = "I_MidiRPCClientShutDown"
    /\ prevShutDown
    /\ strFreed # {}
    /\ hFreed # {}

\* C7: every binding string composed and every handle resolved is released exactly
\* once: after a shutdown none is left unreleased, and none is ever released twice.
C7_ReleasedExactlyOnce ==
    /\ ~doubleFree
    /\ (lastOp = "I_MidiRPCClientShutDown" /\ lastRet = "void")
           => (strLive = {} /\ hLive = {})

\* C8: a shutdown completes whether stop-server succeeds or raises: the exception is
\* swallowed, both flags end false, and the binding string and the binding handle
\* held when it began are released and cleared.
C8_ShutDownAlwaysCompletes ==
    lastOp = "I_MidiRPCClientShutDown" =>
        /\ ~crashed
        /\ lastRet = "void"
        /\ ~serverInit
        /\ ~clientInit
        /\ szStringBinding = NULL
        /\ hMidiRPCBinding = NULL
        /\ pre.szStringBinding # NULL => pre.szStringBinding \in strFreed
        /\ pre.hMidiRPCBinding # NULL => pre.hMidiRPCBinding \in hFreed

\* A shutdown of a Ready session whose helper had ended: stop-server raised, and the
\* string and the handle were freed all the same.
C8_Witness ==
    /\ lastOp = "I_MidiRPCClientShutDown"
    /\ preReady
    /\ ~helperAlive
    /\ Len(Releases(events)) = 2
    /\ events[1].op = "MidiRPC_StopServer"
    /\ events[1].raised
    /\ lastRet = "void"

\* C9: a connect called while serverInit is false returns false at once: nothing is
\* composed or resolved, no listening check or sleep is made, and the session data
\* is unchanged.
C9_ConnectWithoutServer ==
    (lastOp = "I_MidiRPCInitClient" /\ ~pre.serverInit) =>
        /\ lastRet = "false"
        /\ events = <<>>
        /\ poll = NoPoll
        /\ Session = pre

\* A connect was called with the server not started.
C9_Witness ==
    /\ lastOp = "I_MidiRPCInitClient"
    /\ ~pre.serverInit
    /\ lastRet = "false"

\* C10: the readiness poll ends after at most 50 sleeps of 10 ms (at most 500 ms in
\* all), and it returns false when no check within the budget reports listening.
C10_PollBounded ==
    poll.ran =>
        /\ poll.sleeps <= 50
        /\ poll.sleeps * SleepMs <= 500
        /\ poll.listenAt > MIDIRPC_MAXTRIES => (~poll.result /\ lastRet = "false")

\* A poll that used up its whole budget and returned false.
C10_Witness ==
    /\ poll.ran
    /\ ~poll.result
    /\ poll.sleeps = 50
    /\ poll.listenAt > MIDIRPC_MAXTRIES

HasEvent(evs, name) == \E i \in 1..Len(evs) : evs[i].op = name

ProcessCreated(evs) ==
    \E i \in 1..Len(evs) : evs[i].op = "CreateProcess" /\ evs[i].arg # NULL

\* C11: a start returns true and sets serverInit only if CreateProcess succeeded; with
\* the executable missing CreateProcess is not called; a start that fails returns
\* false and leaves the session data unchanged, so a connect made while no start has
\* ever succeeded returns false at once.
C11_StartOnlyOnCreate ==
    /\ lastOp = "I_MidiRPCInitServer" =>
           /\ lastRet \in {"true", "false"}
           /\ lastRet = "true" <=> ProcessCreated(events)
           /\ lastRet = "true" => serverInit
           /\ lastRet = "false" => Session = pre
           /\ events[1] = Ev("M_FileExists", 0, FALSE) => ~HasEvent(events, "CreateProcess")
    /\ (lastOp = "I_MidiRPCInitClient" /\ pi = NULL) =>
           (lastRet = "false" /\ events = <<>>)

\* A start found the executable, CreateProcess failed, and the start returned false.
C11_Witness ==
    /\ lastOp = "I_MidiRPCInitServer"
    /\ events[1] = Ev("M_FileExists", 1, FALSE)
    /\ HasEvent(events, "CreateProcess")
    /\ lastRet = "false"
    /\ ~serverInit

\* C12: from the uninitialized state, with a helper that starts, listens within the
\* tries and raises nothing, start, connect, RegisterSong(data, 128), PlaySong(true)
\* and SetVolume(50) each return true, and the shutdown that follows leaves serverInit
\* and clientInit false and the binding string and handle released and cleared.
C12_FullSession ==
    /\ scen \in 1..5 => lastRet = "true"
    /\ scen \in 2..5 => (serverInit /\ clientInit /\ ready)
    /\ scen = 6 =>
           /\ lastRet = "void"
           /\ ~serverInit
           /\ ~clientInit
           /\ szStringBinding = NULL
           /\ hMidiRPCBinding = NULL
           /\ strLive = {}
           /\ hLive = {}
           /\ pre.szStringBinding \in strFreed
           /\ pre.hMidiRPCBinding \in hFreed

\* The whole session was run, shutdown included.
C12_Witness ==
    /\ scen = 6
    /\ lastOp = "I_MidiRPCClientShutDown"
    /\ Len(RemoteOps(events)) = 1

\* C13: after a shutdown and until a start returns true again, every connect and
\* every gateway command returns false and the session is not Ready; a command
\* returns true again only after a later start has returned true.
C13_NoReadyWithoutRestart ==
    /\ afterShutDown => (~serverInit /\ ~ready)
    /\ (lastOp \in GatewayNames \cup {"I_MidiRPCInitClient"} /\ afterShutDown)
           => (lastRet = "false" /\ RemoteOps(events) = <<>>)
    /\ (lastOp \in GatewayNames /\ lastRet = "true") => ~afterShutDown

\* A command returned true in a second session: a shutdown had freed the first
\* session's handle, then a start and a connect succeeded again.
C13_Witness ==
    /\ lastOp \in GatewayNames
    /\ lastRet = "true"
    /\ hFreed # {}
    /\ ready
    /\ ~afterShutDown

\* C14: RegisterSong calls prepare-new-song and then add-chunk(size, data); it returns
\* true only if both complete; when prepare-new-song raises, add-chunk is not called;
\* when either raises the command returns false and makes no further remote call.
C14_RegisterSongTwoCalls ==
    (lastOp = "I_MidiRPCRegisterSong" /\ GuardPassed) =>
        /\ Len(events) \in 1..2
        /\ events = RemoteOps(events)
        /\ events[1].op = "MidiRPC_PrepareNewSong"
        /\ events[1].raised => Len(events) = 1
        /\ ~events[1].raised => (Len(events) = 2 /\ events[2].op = "MidiRPC_AddChunk")
        /\ lastRet = "true" <=> (Len(events) = 2 /\ ~events[1].raised /\ ~events[2].raised)
        /\ AnyRaised(events) => lastRet = "false"

\* prepare-new-song raised: add-chunk was not called and the command returned false.
C14_Witness ==
    /\ lastOp = "I_MidiRPCRegisterSong"
    /\ GuardPassed
    /\ helperAlive
    /\ events = <<Ev("MidiRPC_PrepareNewSong", 0, TRUE)>>
    /\ lastRet = "false"

\* C15: the process handle a successful start obtained is released exactly once in the
\* shutdown: after a shutdown has completed no process handle is still held.
C15_ProcessHandleReleased ==
    (lastOp = "I_MidiRPCClientShutDown" /\ lastRet = "void") => ProcessHandlesOpen = {}

\* C16: a shutdown after a partial initialization tests each resource on its own: with
\* no binding string and no handle it frees nothing; with a binding string composed
\* and no handle resolved it frees the string once and frees no handle; in both cases
\* it raises nothing and ends with both flags false.
C16_ShutDownAfterPartialInit ==
    (lastOp = "I_MidiRPCClientShutDown" /\ pre.hMidiRPCBinding = NULL) =>
        /\ ~crashed
        /\ lastRet = "void"
        /\ ~serverInit
        /\ ~clientInit
        /\ ~HasEvent(events, "RpcBindingFree")
        /\ pre.szStringBinding = NULL => Releases(events) = <<>>
        /\ pre.szStringBinding # NULL =>
               Releases(events) = <<Ev("RpcStringFree", pre.szStringBinding, FALSE)>>

\* A shutdown of a started session whose connect composed the string and failed to
\* resolve the handle.
C16_Witness ==
    /\ lastOp = "I_MidiRPCClientShutDown"
    /\ pre.serverInit
    /\ pre.szStringBinding # NULL
    /\ pre.hMidiRPCBinding = NULL
    /\ Len(Releases(events)) = 1
    /\ strFreed = {pre.szStringBinding}

\* C17: a shutdown attempts stop-server exactly once when serverInit is true on entry
\* and not at all when it is false, and the attempt comes before the binding string
\* and the handle are freed and before clientInit is cleared.
C17_ShutDownOrdering ==
    (lastOp = "I_MidiRPCClientShutDown" /\ lastRet = "void") =>
        /\ pre.serverInit =>
               /\ Len(RemoteOps(events)) = 1
               /\ events[1].op = "MidiRPC_StopServer"
        /\ ~pre.serverInit => RemoteOps(events) = <<>>
        /\ HasEvent(events, "clientInit = false")

\* A shutdown of a started and bound session: stop-server, then the two frees, then
\* the flag.
C17_Witness ==
    /\ lastOp = "I_MidiRPCClientShutDown"
    /\ pre.serverInit
    /\ Len(events) = 4
    /\ events[1].op = "MidiRPC_StopServer"
    /\ events[2].op = "RpcStringFree"
    /\ events[3].op = "RpcBindingFree"
    /\ events[4].op = "clientInit = false"

\* C18: a gateway command never changes the session data, whatever its outcome (guard
\* rejection, success, exception): serverInit, clientInit, the binding string and
\* the handle are after the call what they were before; after an exception the
\* flags are still true, and a command that passes the guard makes its remote call.
C18_CommandsKeepSession ==
    lastOp \in GatewayNames =>
        /\ Session = pre
        /\ GuardPassed => RemoteOps(events) # <<>>
        /\ AnyRaised(events) => (serverInit /\ clientInit)

\* A command made after the helper had ended: its remote call raised, and the flags
\* are still true.
C18_Witness ==
    /\ lastOp \in GatewayNames
    /\ ~helperAlive
    /\ AnyRaised(events)
    /\ serverInit
    /\ clientInit
    /\ Session = pre

\* C19: the readiness poll makes at most 50 listening checks and returns true exactly
\* when one of them reports listening, after k-1 sleeps when it is the k-th; it
\* returns false after exactly 50 failed checks and 50 sleeps, the last sleep being
\* followed by no check.
C19_PollMatchesReference ==
    poll.ran =>
        /\ poll.checks \in 1..50
        /\ poll.result <=> poll.listenAt <= 50
        /\ poll.result => (poll.checks = poll.listenAt /\ poll.sleeps = poll.listenAt - 1)
        /\ ~poll.result => (poll.checks = 50 /\ poll.sleeps = 50)
        /\ lastRet = Ret(poll.result)

\* The helper began to listen at the 50th and last check: 49 sleeps, result true.
C19_Witness ==
    /\ poll.ran
    /\ poll.result
    /\ poll.listenAt = 50
    /\ poll.checks = 50
    /\ poll.sleeps = 49

\* C20: at most one helper is launched per session: a start called while serverInit
\* is already true creates no process.
C20_OneHelperPerSession ==
    (lastOp = "I_MidiRPCInitServer" /\ pre.serverInit) => ~ProcessCreated(events)

====
